---- MODULE Spec2Model ----
(***************************************************************************)
(* Caliper memory pool (src/caliper/MemoryPool.cpp): a chunked, append-only *)
(* arena behind a SigsafeRWLock.  Threads call MemoryPool::allocate; a      *)
(* signal handler may call it again on a thread that is already inside it.  *)
(* Sizes are counted in uint64_t slots exactly as the code does.            *)
(***************************************************************************)
EXTENDS Integers, Sequences, FiniteSets, TLC

VARIABLES
    pool_size,      \* config value "pool_size" read by the constructor (bytes)
    m_can_expand,   \* MemoryPoolImpl::m_can_expand
    m_chunks,       \* MemoryPoolImpl::m_chunks : sequence of Chunk
    m_index,        \* MemoryPoolImpl::m_index (0-based, as in the code)
    lock_owner,     \* SigsafeRWLock: thread holding the write lock, or NoThread
    lock_marker,    \* SigsafeRWLock: per-thread "holding or acquiring" marker
    pc,             \* position of every call frame inside MemoryPool::allocate
    bytes,          \* argument of the frame's call
    n,              \* local n of MemoryPoolImpl::allocate
    res,            \* local ptr / returned value of the frame's call
    ncalls,         \* calls issued by ordinary threads so far
    nsignals,       \* nested (signal handler) calls issued so far
    history,        \* completed runs of MemoryPoolImpl::allocate, in order
    ctor_bytes,     \* argument of MemoryPool::MemoryPool(size_t), or NoCtorBytes
    tf              \* TreeFormatterImpl and the threads inside it

vars == <<tf, ctor_bytes, pool_size, m_can_expand, m_chunks, m_index, lock_owner, lock_marker,
          pc, bytes, n, res, ncalls, nsignals, history>>

----------------------------------------------------------------------------
\* Bounds of the model

NumThreads == 2
MaxCalls   == 3
MaxSignals == 1
SizeBits   == 24

Threads  == 1..NumThreads
NoThread == 0
\* a frame is <<thread, depth>>: depth 0 is the thread's own call, depth 1 a
\* call made by a signal handler that interrupted the thread
Frames   == Threads \X {0, 1}
SizeMax  == 2^SizeBits

\* byte counts the callers pass
ByteSizes == {0, 1, 8, 64, 70 * 1024, 524288, 2097145, 3145728}
\* byte counts used where signal handlers take part
SigByteSizes == {8, 524288}
\* byte counts used where threads call without end
LiveByteSizes == {0, 524288}

----------------------------------------------------------------------------
\* Program constants

chunksize       == 64 * 1024
SlotBytes       == 8
DefaultPoolSize == 2097152
PoolSizes       == {128, DefaultPoolSize}

\* the pool was built by the default constructor
NoCtorBytes == -1

\* a TreeFormatter nobody uses
NoFormatter == <<>>

Null  == <<-1, -1>>
NoRes == <<-2, -2>>

Max(a, b) == IF a >= b THEN a ELSE b

\* (bytes + sizeof(uint64_t) - 1) / sizeof(uint64_t) in size_t arithmetic
Slots_Floor(b) == (b % SizeMax) \div SlotBytes
Slots(b) == ((b + SlotBytes - 1) % SizeMax) \div SlotBytes

\* len of the chunk expand(bytes) creates
NewChunkLen_NoMinimum(b) == Slots(b)
NewChunkLen_NoRequest(b) == chunksize
NewChunkLen(b) == Max(Slots(b), chunksize)

\* m_chunks.push_back( { new uint64_t[len], 0, len } )
PushChunk_ReplaceLast(chunks, b) ==
    IF Len(chunks) = 0
    THEN <<[ptr |-> 1, wmark |-> 0, size |-> NewChunkLen(b)]>>
    ELSE [chunks EXCEPT ![Len(chunks)] =
             [ptr |-> Len(chunks) + 1, wmark |-> 0, size |-> NewChunkLen(b)]]
PushChunk(chunks, b) ==
    Append(chunks, [ptr |-> Len(chunks) + 1, wmark |-> 0, size |-> NewChunkLen(b)])

\* m_index = m_chunks.size() - 1
NewIndex_Stale(chunks) == IF Len(chunks) = 1 THEN 0 ELSE m_index
NewIndex_First(chunks) == 0
NewIndex(chunks) == Len(chunks) - 1

\* the test of MemoryPoolImpl::allocate that sends the call to growth or null
NoRoom_OffByOne(chunks, idx, k) ==
    idx = Len(chunks) \/ chunks[idx + 1].wmark + k >= chunks[idx + 1].size
NoRoom(chunks, idx, k) ==
    idx = Len(chunks) \/ chunks[idx + 1].wmark + k > chunks[idx + 1].size

\* m_chunks[m_index].wmark += n
Bumped_NoAdvance(c, k) == c
Bumped(c, k) == [c EXCEPT !.wmark = (@ + k) % SizeMax]

\* the can_expand argument MemoryPool::allocate passes to the core
CanExpandArg_Always == TRUE
CanExpandArg == m_can_expand

Record(h, r) == IF Len(h) < MaxCalls + MaxSignals THEN Append(h, r) ELSE h

----------------------------------------------------------------------------
\* SigsafeRWLock (collaborator; contract of the specification, section 4.4)

\* the calling thread is already holding or acquiring the lock
Reentrant(t) == lock_marker[t]

\* wlock(), entered: a re-entrant caller fails fast, any other caller
\* announces itself and goes on to wait
wlock_enter(t) ==
    /\ lock_marker' = [lock_marker EXCEPT ![t] = TRUE]
    /\ UNCHANGED lock_owner

\* wlock(), granted: exclusive among threads
wlock_acquire(t) ==
    /\ lock_owner = NoThread
    /\ lock_owner' = t
    /\ UNCHANGED lock_marker

\* unlock(): the lock knows its holder by thread
unlock(t) ==
    /\ lock_owner' = IF lock_owner = t THEN NoThread ELSE lock_owner
    /\ lock_marker' = [lock_marker EXCEPT ![t] = FALSE]

----------------------------------------------------------------------------
\* Construction: MemoryPool::MemoryPool() -> MemoryPoolImpl() -> expand(s)

Init ==
    /\ pool_size \in PoolSizes
    /\ m_can_expand \in BOOLEAN
    /\ m_chunks = PushChunk(<<>>, pool_size)
    /\ m_index = NewIndex(m_chunks)
    /\ lock_owner = NoThread
    /\ lock_marker = [t \in Threads |-> FALSE]
    /\ pc = [f \in Frames |-> "idle"]
    /\ bytes = [f \in Frames |-> 0]
    /\ n = [f \in Frames |-> 0]
    /\ res = [f \in Frames |-> NoRes]
    /\ ncalls = 0
    /\ nsignals = 0
    /\ history = <<>>
    /\ ctor_bytes = NoCtorBytes
    /\ tf = NoFormatter

\* a thread's own frame runs only while no handler is running on the thread
Running(f) == f[2] = 1 \/ pc[<<f[1], 1>>] = "idle"

Inside == {"acquire", "core", "expand", "ptr", "ptrx", "bump", "bumpx", "unlock"}

\* MemoryPool::allocate(b) entered: mP->m_lock.wlock() is called and the call
\* goes on whatever the lock answers
Enter_NoLock(f, b) ==
    /\ pc' = [pc EXCEPT ![f] = "core"]
    /\ bytes' = [bytes EXCEPT ![f] = b]
    /\ UNCHANGED <<lock_owner, lock_marker>>
Enter(f, b) ==
    /\ bytes' = [bytes EXCEPT ![f] = b]
    /\ IF Reentrant(f[1])
       THEN /\ pc' = [pc EXCEPT ![f] = "core"]
            /\ UNCHANGED <<lock_owner, lock_marker>>
       ELSE /\ wlock_enter(f[1])
            /\ pc' = [pc EXCEPT ![f] = "acquire"]

\* a thread calls MemoryPool::allocate(b)
Call(t, b) ==
    /\ pc[<<t, 0>>] = "idle"
    /\ pc[<<t, 1>>] = "idle"
    /\ ncalls < MaxCalls
    /\ ncalls' = ncalls + 1
    /\ Enter(<<t, 0>>, b)
    /\ UNCHANGED <<tf, ctor_bytes, pool_size, m_can_expand, m_chunks, m_index, n, res,
                   nsignals, history>>

\* a signal handler interrupts thread t inside MemoryPool::allocate, while it
\* holds or is acquiring the lock, and calls MemoryPool::allocate(b) itself
SignalCall(t, b) ==
    /\ pc[<<t, 0>>] \in Inside
    /\ pc[<<t, 1>>] = "idle"
    /\ nsignals < MaxSignals
    /\ nsignals' = nsignals + 1
    /\ Enter(<<t, 1>>, b)
    /\ UNCHANGED <<tf, ctor_bytes, pool_size, m_can_expand, m_chunks, m_index, n, res,
                   ncalls, history>>

\* mP->m_lock.wlock(), returning with the lock
AllocAcquire(f) ==
    /\ pc[f] = "acquire"
    /\ Running(f)
    /\ wlock_acquire(f[1])
    /\ pc' = [pc EXCEPT ![f] = "core"]
    /\ UNCHANGED <<tf, ctor_bytes, pool_size, m_can_expand, m_chunks, m_index, bytes, n, res,
                   ncalls, nsignals, history>>

\* MemoryPoolImpl::allocate: compute n, test the current chunk, return
\* nullptr when the request does not fit and growth is not allowed
AllocCheck_EarlyReturn(f) ==
    /\ pc[f] = "core"
    /\ Running(f)
    /\ LET k == Slots(bytes[f]) IN
       /\ n' = [n EXCEPT ![f] = k]
       /\ IF NoRoom(m_chunks, m_index, k)
          THEN IF CanExpandArg
               THEN /\ pc' = [pc EXCEPT ![f] = "expand"]
                    /\ UNCHANGED <<res, history>>
               ELSE /\ pc' = [pc EXCEPT ![f] = "idle"]
                    /\ res' = [res EXCEPT ![f] = NoRes]
                    /\ history' = Record(history,
                           [bytes |-> bytes[f], n |-> k, res |-> Null,
                            grew |-> FALSE, depth |-> f[2]])
          ELSE /\ pc' = [pc EXCEPT ![f] = "ptr"]
               /\ UNCHANGED <<res, history>>
    /\ UNCHANGED <<tf, ctor_bytes, pool_size, m_can_expand, m_chunks, m_index, lock_owner,
                   lock_marker, bytes, ncalls, nsignals>>
AllocCheck_ExpandThenTest(f) ==
    /\ pc[f] = "core"
    /\ Running(f)
    /\ LET k == Slots(bytes[f]) IN
       /\ n' = [n EXCEPT ![f] = k]
       /\ IF NoRoom(m_chunks, m_index, k)
          THEN /\ m_chunks' = PushChunk(m_chunks, bytes[f])
               /\ m_index' = NewIndex(m_chunks')
               /\ IF CanExpandArg
                  THEN /\ pc' = [pc EXCEPT ![f] = "ptrx"]
                       /\ UNCHANGED <<res, history>>
                  ELSE /\ pc' = [pc EXCEPT ![f] = "unlock"]
                       /\ res' = [res EXCEPT ![f] = Null]
                       /\ history' = Record(history,
                              [bytes |-> bytes[f], n |-> k, res |-> Null,
                               grew |-> FALSE, depth |-> f[2]])
          ELSE /\ pc' = [pc EXCEPT ![f] = "ptr"]
               /\ UNCHANGED <<res, history, m_chunks, m_index>>
    /\ UNCHANGED <<tf, ctor_bytes, pool_size, m_can_expand, lock_owner,
                   lock_marker, bytes, ncalls, nsignals>>
AllocCheck(f) ==
    /\ pc[f] = "core"
    /\ Running(f)
    /\ LET k == Slots(bytes[f]) IN
       /\ n' = [n EXCEPT ![f] = k]
       /\ IF NoRoom(m_chunks, m_index, k)
          THEN IF CanExpandArg
               THEN /\ pc' = [pc EXCEPT ![f] = "expand"]
                    /\ UNCHANGED <<res, history>>
               ELSE /\ pc' = [pc EXCEPT ![f] = "unlock"]
                    /\ res' = [res EXCEPT ![f] = Null]
                    /\ history' = Record(history,
                           [bytes |-> bytes[f], n |-> k, res |-> Null,
                            grew |-> FALSE, depth |-> f[2]])
          ELSE /\ pc' = [pc EXCEPT ![f] = "ptr"]
               /\ UNCHANGED <<res, history>>
    /\ UNCHANGED <<tf, ctor_bytes, pool_size, m_can_expand, m_chunks, m_index, lock_owner,
                   lock_marker, bytes, ncalls, nsignals>>

\* MemoryPoolImpl::expand(bytes), called from allocate
AllocExpand(f) ==
    /\ pc[f] = "expand"
    /\ Running(f)
    /\ m_chunks' = PushChunk(m_chunks, bytes[f])
    /\ m_index' = NewIndex(m_chunks')
    /\ pc' = [pc EXCEPT ![f] = "ptrx"]
    /\ UNCHANGED <<tf, ctor_bytes, pool_size, m_can_expand, lock_owner, lock_marker, bytes, n,
                   res, ncalls, nsignals, history>>

\* void *ptr = m_chunks[m_index].ptr + m_chunks[m_index].wmark
AllocPtr(f) ==
    /\ pc[f] \in {"ptr", "ptrx"}
    /\ Running(f)
    /\ res' = [res EXCEPT ![f] =
                  <<m_chunks[m_index + 1].ptr, m_chunks[m_index + 1].wmark>>]
    /\ pc' = [pc EXCEPT ![f] = IF pc[f] = "ptrx" THEN "bumpx" ELSE "bump"]
    /\ UNCHANGED <<tf, ctor_bytes, pool_size, m_can_expand, m_chunks, m_index, lock_owner,
                   lock_marker, bytes, n, ncalls, nsignals, history>>

\* m_chunks[m_index].wmark += n; return ptr
AllocBump_ReuseTail(f) ==
    /\ pc[f] \in {"bump", "bumpx"}
    /\ Running(f)
    /\ LET fit == {c \in 1..Len(m_chunks) :
                      m_chunks[c].wmark + n[f] <= m_chunks[c].size}
           c == IF fit = {} THEN m_index + 1
                ELSE CHOOSE x \in fit : \A y \in fit : x <= y
       IN  m_chunks' = [m_chunks EXCEPT ![c] = Bumped(@, n[f])]
    /\ history' = Record(history,
           [bytes |-> bytes[f], n |-> n[f], res |-> res[f],
            grew |-> (pc[f] = "bumpx"), depth |-> f[2]])
    /\ pc' = [pc EXCEPT ![f] = "unlock"]
    /\ UNCHANGED <<tf, ctor_bytes, pool_size, m_can_expand, m_index, lock_owner,
                   lock_marker, bytes, n, res, ncalls, nsignals>>
AllocBump(f) ==
    /\ pc[f] \in {"bump", "bumpx"}
    /\ Running(f)
    /\ m_chunks' = [m_chunks EXCEPT ![m_index + 1] = Bumped(@, n[f])]
    /\ history' = Record(history,
           [bytes |-> bytes[f], n |-> n[f], res |-> res[f],
            grew |-> (pc[f] = "bumpx"), depth |-> f[2]])
    /\ pc' = [pc EXCEPT ![f] = "unlock"]
    /\ UNCHANGED <<tf, ctor_bytes, pool_size, m_can_expand, m_index, lock_owner, lock_marker,
                   bytes, n, res, ncalls, nsignals>>

\* mP->m_lock.unlock(); return ptr
AllocUnlock_Forgotten(f) ==
    /\ pc[f] = "unlock"
    /\ Running(f)
    /\ pc' = [pc EXCEPT ![f] = "idle"]
    /\ bytes' = [bytes EXCEPT ![f] = 0]
    /\ n' = [n EXCEPT ![f] = 0]
    /\ res' = [res EXCEPT ![f] = NoRes]
    /\ UNCHANGED <<tf, ctor_bytes, pool_size, m_can_expand, m_chunks, m_index, lock_owner,
                   lock_marker, ncalls, nsignals, history>>
AllocUnlock(f) ==
    /\ pc[f] = "unlock"
    /\ Running(f)
    /\ unlock(f[1])
    /\ pc' = [pc EXCEPT ![f] = "idle"]
    /\ bytes' = [bytes EXCEPT ![f] = 0]
    /\ n' = [n EXCEPT ![f] = 0]
    /\ res' = [res EXCEPT ![f] = NoRes]
    /\ UNCHANGED <<tf, ctor_bytes, pool_size, m_can_expand, m_chunks, m_index, ncalls,
                   nsignals, history>>

Step(f) ==
    \/ AllocAcquire(f)
    \/ AllocCheck(f)
    \/ AllocExpand(f)
    \/ AllocPtr(f)
    \/ AllocBump(f)
    \/ AllocUnlock(f)

\* ordinary threads only
Next ==
    \/ \E t \in Threads, b \in ByteSizes : Call(t, b)
    \/ \E f \in Frames : Step(f)

Spec == Init /\ [][Next]_vars

\* threads and signal handlers
NextSig ==
    \/ \E t \in Threads, b \in SigByteSizes : Call(t, b)
    \/ \E f \in Frames : Step(f)
    \/ \E t \in Threads, b \in SigByteSizes : SignalCall(t, b)

SpecSig == Init /\ [][NextSig]_vars

\* threads that keep calling: a pool that cannot grow has finitely many
\* states, so its threads may call without end
LiveCall(t, b) ==
    /\ pc[<<t, 0>>] = "idle"
    /\ pc[<<t, 1>>] = "idle"
    /\ ncalls < MaxCalls \/ ~m_can_expand
    /\ ncalls' = IF ncalls < MaxCalls THEN ncalls + 1 ELSE ncalls
    /\ Enter(<<t, 0>>, b)
    /\ UNCHANGED <<tf, ctor_bytes, pool_size, m_can_expand, m_chunks, m_index, n, res,
                   nsignals, history>>

NextLive ==
    \/ \E t \in Threads, b \in LiveByteSizes : LiveCall(t, b)
    \/ \E f \in Frames : Step(f)

\* a thread inside allocate keeps running (weak fairness of its steps); the
\* lock serves every waiter (strong fairness of the grant): specification,
\* section 5, bounds the wait by another thread's critical section
Running0(t) ==
    \/ AllocCheck(<<t, 0>>)
    \/ AllocExpand(<<t, 0>>)
    \/ AllocPtr(<<t, 0>>)
    \/ AllocBump(<<t, 0>>)
    \/ AllocUnlock(<<t, 0>>)

Fairness ==
    \A t \in Threads :
        /\ WF_vars(Running0(t))
        /\ SF_vars(AllocAcquire(<<t, 0>>))

SpecLive == Init /\ [][NextLive]_vars /\ Fairness

\* MemoryPool::MemoryPool(size_t bytes): the MemoryPoolImpl constructor
\* grows the pool to pool_size, then the body grows it again to bytes
CtorByteSizes == {64, 3145728}
AltByteSizes == {0, 64, 524288}

InitAlt ==
    /\ pool_size \in PoolSizes
    /\ m_can_expand \in BOOLEAN
    /\ ctor_bytes \in CtorByteSizes
    /\ m_chunks = PushChunk(PushChunk(<<>>, pool_size), ctor_bytes)
    /\ m_index = NewIndex(m_chunks)
    /\ lock_owner = NoThread
    /\ lock_marker = [t \in Threads |-> FALSE]
    /\ pc = [f \in Frames |-> "idle"]
    /\ bytes = [f \in Frames |-> 0]
    /\ n = [f \in Frames |-> 0]
    /\ res = [f \in Frames |-> NoRes]
    /\ ncalls = 0
    /\ nsignals = 0
    /\ history = <<>>
    /\ tf = NoFormatter

NextAlt ==
    \/ \E t \in Threads, b \in AltByteSizes : Call(t, b)
    \/ \E f \in Frames : Step(f)

SpecAlt == InitAlt /\ [][NextAlt]_vars

\* byte counts up to the largest size_t
WideByteSizes == {1, 8, SizeMax - 8, SizeMax - 7, SizeMax - 6, SizeMax - 1}

NextWide ==
    \/ \E t \in Threads, b \in WideByteSizes : Call(t, b)
    \/ \E f \in Frames : Step(f)

SpecWide == Init /\ [][NextWide]_vars

----------------------------------------------------------------------------
\* TreeFormatter (reader/TreeFormatter.cpp). Strings are modelled by their
\* lengths, attributes by their ids in the metadata database.

MaxAdds == 2
MaxStrLen == 3

\* length of the whitespace buffer
whitespace == 120

Min(a, b) == IF a < b THEN a ELSE b

\* the attributes of the database: length of the name, and whether the type
\* is one of INT, UINT, DOUBLE, ADDR
db_attributes ==
    <<[name |-> 1, align_right |-> FALSE],
      [name |-> 8, align_right |-> FALSE],
      [name |-> 5, align_right |-> TRUE]>>
Attributes == 1..Len(db_attributes)

\* number of blanks that pad_right and pad_left write: the argument of
\* std::min is computed in std::size_t
pad_right(len, width) == Min(whitespace, (1 + width - len) % SizeMax)
pad_left(len, width) == Min(whitespace, (width - len) % SizeMax)

\* one written cell: the function, the string length, the column width and
\* the number of blanks
Cell(fn, len, width) ==
    [fn |-> fn, len |-> len, width |-> width,
     pad |-> IF fn = "right" THEN pad_right(len, width)
                             ELSE pad_left(len, width)]

\* QuerySpec::AttributeSelection
Selections ==
    {[selection |-> "All", list |-> {}]} \cup
    {[selection |-> "List", list |-> l] : l \in SUBSET Attributes}

\* std::map::operator[] : a missing entry is inserted with value 0
WidthOf(a) ==
    IF a \in tf.known THEN tf.m_attribute_column_widths[a] ELSE 0

\* the memory pool, constructed and not in use
PoolIdle ==
    /\ pool_size = DefaultPoolSize
    /\ m_can_expand = TRUE
    /\ m_chunks = PushChunk(<<>>, pool_size)
    /\ m_index = NewIndex(m_chunks)
    /\ lock_owner = NoThread
    /\ lock_marker = [t \in Threads |-> FALSE]
    /\ pc = [f \in Frames |-> "idle"]
    /\ bytes = [f \in Frames |-> 0]
    /\ n = [f \in Frames |-> 0]
    /\ res = [f \in Frames |-> NoRes]
    /\ ncalls = 0
    /\ nsignals = 0
    /\ history = <<>>
    /\ ctor_bytes = NoCtorBytes

poolvars == <<ctor_bytes, pool_size, m_can_expand, m_chunks, m_index, lock_owner,
              lock_marker, pc, bytes, n, res, ncalls, nsignals, history>>

\* TreeFormatter::TreeFormatter(spec): configure, m_path_column_width(0);
\* known is the key set of m_attribute_column_widths, out the cells written
\* by the last flush
InitPad ==
    /\ PoolIdle
    /\ \E sel \in Selections :
          tf = [m_attribute_columns |-> sel,
                m_attribute_column_widths |-> [a \in Attributes |-> 0],
                known |-> {},
                m_path_column_width |-> 0,
                nodes |-> {},
                nadds |-> 0,
                out |-> {}]

\* TreeFormatterImpl::add: the tree returns a top-level node whose label has
\* length label and which carries attribute a with a value of length len
add(a, len, label) ==
    /\ tf.nadds < MaxAdds
    /\ tf' = [tf EXCEPT
          !.nadds = @ + 1,
          !.nodes = @ \cup {[label |-> label, attr |-> a, len |-> len]},
          !.m_path_column_width = Max(@, label + 2),
          !.known = @ \cup {a},
          !.m_attribute_column_widths[a] =
              IF a \notin tf.known
              THEN Max(len, db_attributes[a].name)
              ELSE Max(@, len)]
    /\ UNCHANGED poolvars

\* TreeFormatterImpl::flush with recursive_print_nodes: the header line and
\* one line for every node
flush ==
    LET pw == Max(tf.m_path_column_width, 4)
        attributes == IF tf.m_attribute_columns.selection = "All"
                      THEN tf.known
                      ELSE tf.m_attribute_columns.list
        header == {Cell("right", 4, pw)} \cup
                  {Cell("right", db_attributes[a].name, WidthOf(a)) :
                       a \in attributes}
        paths == {Cell("right", nd.label, pw) : nd \in tf.nodes}
        values == {Cell(IF db_attributes[p[2]].align_right
                            THEN "left" ELSE "right",
                        IF p[1].attr = p[2] THEN p[1].len ELSE 0,
                        WidthOf(p[2])) : p \in tf.nodes \X attributes}
    IN  /\ tf' = [tf EXCEPT
              !.m_path_column_width = pw,
              !.known = @ \cup attributes,
              !.out = header \cup paths \cup values]
        /\ UNCHANGED poolvars

NextPad ==
    \/ \E a \in Attributes, len \in 0..MaxStrLen, label \in 1..MaxStrLen :
          add(a, len, label)
    \/ flush

SpecPad == InitPad /\ [][NextPad]_vars

\* TreeFormatterImpl::get_path_keys, called by several threads

NumKeys == 2

\* Attribute::invalid
invalid == 0

\* indices of m_path_key_names and of m_path_keys
Keys == 1..NumKeys

\* the attribute of the name m_path_key_names[i]
KeyAttr(i) == i

\* db.get_attribute(m_path_key_names[i]): the attribute of that name, or
\* Attribute::invalid as long as the database has none
get_attribute(i) == IF i \in tf.db THEN KeyAttr(i) ELSE invalid

\* configure: m_path_keys.assign(m_path_key_names.size(), Attribute::invalid);
\* path_keys, i and attr are the locals of each thread's get_path_keys
InitKeys ==
    /\ PoolIdle
    /\ tf = [m_path_keys |-> [i \in Keys |-> invalid],
             db |-> {},
             at |-> [t \in Threads |-> "idle"],
             path_keys |-> [t \in Threads |-> [i \in Keys |-> invalid]],
             i |-> [t \in Threads |-> 1],
             attr |-> [t \in Threads |-> invalid]]

\* a record read elsewhere creates the attribute named m_path_key_names[i]
CreateAttribute(i) ==
    /\ i \notin tf.db
    /\ tf' = [tf EXCEPT !.db = @ \cup {i}]
    /\ UNCHANGED poolvars

\* path_keys = m_path_keys under m_path_key_lock
GetCopy(t) ==
    /\ tf.at[t] = "idle"
    /\ tf' = [tf EXCEPT !.at[t] = "loop",
                        !.path_keys[t] = tf.m_path_keys,
                        !.i[t] = 1,
                        !.attr[t] = invalid]
    /\ UNCHANGED poolvars

\* one pass of the loop head: an entry that is valid in the copy is skipped,
\* an invalid one is looked up in the database
GetLookup(t) ==
    /\ tf.at[t] = "loop"
    /\ tf.i[t] <= NumKeys
    /\ IF tf.path_keys[t][tf.i[t]] = invalid
       THEN tf' = [tf EXCEPT !.attr[t] = get_attribute(tf.i[t]),
                             !.at[t] = "store"]
       ELSE tf' = [tf EXCEPT !.i[t] = @ + 1]
    /\ UNCHANGED poolvars

\* if (attr != Attribute::invalid): path_keys[i] = attr and, under
\* m_path_key_lock, m_path_keys[i] = attr
GetStore_Unguarded(t) ==
    /\ tf.at[t] = "store"
    /\ tf' = [tf EXCEPT !.path_keys[t][tf.i[t]] = tf.attr[t],
                        !.m_path_keys[tf.i[t]] = tf.attr[t],
                        !.i[t] = @ + 1,
                        !.at[t] = "loop"]
    /\ UNCHANGED poolvars
GetStore(t) ==
    /\ tf.at[t] = "store"
    /\ IF tf.attr[t] /= invalid
       THEN tf' = [tf EXCEPT !.path_keys[t][tf.i[t]] = tf.attr[t],
                             !.m_path_keys[tf.i[t]] = tf.attr[t],
                             !.i[t] = @ + 1,
                             !.at[t] = "loop"]
       ELSE tf' = [tf EXCEPT !.i[t] = @ + 1,
                             !.at[t] = "loop"]
    /\ UNCHANGED poolvars

\* return path_keys
GetReturn(t) ==
    /\ tf.at[t] = "loop"
    /\ tf.i[t] = NumKeys + 1
    /\ tf' = [tf EXCEPT !.at[t] = "idle"]
    /\ UNCHANGED poolvars

NextKeys ==
    \/ \E i \in Keys : CreateAttribute(i)
    \/ \E t \in Threads : GetCopy(t)
    \/ \E t \in Threads : GetLookup(t)
    \/ \E t \in Threads : GetStore(t)
    \/ \E t \in Threads : GetReturn(t)

SpecKeys == InitKeys /\ [][NextKeys]_vars

----------------------------------------------------------------------------
\* Vocabulary of the properties

RECURSIVE SumBytes(_)
SumBytes(h) == IF h = <<>> THEN 0 ELSE h[1].bytes + SumBytes(Tail(h))

\* a request rounded up to whole slots, in bytes, as size_t arithmetic gives it
CeilSlots(b) == ((b + 7) % SizeMax) \div 8

RECURSIVE SumRounded(_)
SumRounded(h) ==
    IF h = <<>> THEN 0 ELSE 8 * CeilSlots(h[1].bytes) + SumRounded(Tail(h))

\* two returned regions share a slot
Overlap(r1, r2) ==
    /\ r1.res /= Null /\ r2.res /= Null
    /\ r1.res[1] = r2.res[1]
    /\ r1.n > 0 /\ r2.n > 0
    /\ r1.res[2] < r2.res[2] + r2.n
    /\ r2.res[2] < r1.res[2] + r1.n

\* no frame has changed the arena without its run being in the history yet
CoreIdle == \A f \in Frames : pc[f] \notin {"expand", "ptr", "ptrx", "bump", "bumpx"}

AllIdle == \A f \in Frames : pc[f] = "idle"

Holding == {"core", "expand", "ptr", "ptrx", "bump", "bumpx", "unlock"}

HistBytes == [i \in 1..Len(history) |-> history[i].bytes]

----------------------------------------------------------------------------
\* C1: the regions returned by two different non-null allocate calls of
\* concurrently running threads never share a slot of any chunk.
C1_Disjoint ==
    \A i, j \in 1..Len(history) :
        i < j => ~Overlap(history[i], history[j])

\* two threads were inside allocate at once, one waiting for the lock the
\* other held, and two non-empty regions of one chunk have been returned
C1_Witness ==
    /\ \E t \in Threads :
          pc[<<t, 0>>] = "acquire" /\ lock_owner \notin {NoThread, t}
    /\ \E i, j \in 1..Len(history) :
          /\ i < j
          /\ history[i].res /= Null /\ history[j].res /= Null
          /\ history[i].n > 0 /\ history[j].n > 0
          /\ history[i].res[1] = history[j].res[1]

\* C2: a call made by a signal handler on a thread that is holding or acquiring
\* the pool lock fails fast and returns null.
C2_NestedCallReturnsNull ==
    \A i \in 1..Len(history) :
        history[i].depth = 1 => history[i].res = Null

\* C3 as written: calls whose byte counts sum to at most pool_size never
\* trigger growth and never return null.
C3_NoSpuriousGrowth_Bytes ==
    (CoreIdle /\ SumBytes(history) <= pool_size) =>
        /\ Len(m_chunks) = 1
        /\ \A i \in 1..Len(history) : history[i].res /= Null

\* C3 amended: calls whose byte counts, each rounded up to a multiple of 8,
\* sum to at most pool_size never trigger growth and never return null.
C3_NoSpuriousGrowth ==
    (CoreIdle /\ SumRounded(history) <= pool_size) =>
        /\ Len(m_chunks) = 1
        /\ \A i \in 1..Len(history) :
              history[i].res /= Null /\ ~history[i].grew

C3_Witness ==
    /\ pool_size = DefaultPoolSize
    /\ CoreIdle
    /\ Len(history) = 3
    /\ \A i \in 1..Len(history) : history[i].n > 0
    /\ SumRounded(history) <= pool_size
    /\ 8 * m_chunks[1].wmark = SumRounded(history)

\* Scenario A has been run: pool_size 128, no growth, allocate(64),
\* allocate(64), allocate(8)
ScenarioA ==
    /\ pool_size = 128
    /\ ~m_can_expand
    /\ CoreIdle
    /\ HistBytes = <<64, 64, 8>>

\* C4 as written: the chunk has 16 slots, the two allocate(64) succeed and
\* fill it, and allocate(8) returns null.
C4_ScenarioA_Null ==
    ScenarioA =>
        /\ m_chunks[1].size = 16
        /\ history[1].res /= Null
        /\ history[2].res /= Null
        /\ history[3].res = Null

\* C4 amended: the single chunk has max(16, chunksize) = 65536 slots, the two
\* allocate(64) take slots 0..15 and allocate(8) succeeds at slot 16.
C4_ScenarioA ==
    ScenarioA =>
        /\ Len(m_chunks) = 1
        /\ m_chunks[1].size = 65536
        /\ history[1].res = <<1, 0>>
        /\ history[2].res = <<1, 8>>
        /\ history[3].res = <<1, 16>>
        /\ m_chunks[1].wmark = 17

C4_Witness == ScenarioA /\ AllIdle

\* one call has run on a default-configured pool that may grow
SingleCall ==
    /\ pool_size = DefaultPoolSize
    /\ m_can_expand
    /\ CoreIdle
    /\ Len(history) = 1

\* C5 as written: a single request of more than 64 KiB grows the default pool
\* to 2 chunks.
C5_SingleCallGrowth_64K ==
    (SingleCall /\ history[1].bytes > 64 * 1024) =>
        /\ history[1].grew
        /\ history[1].res /= Null
        /\ Len(m_chunks) = 2

\* C5 amended: a single request grows the default pool exactly when its slot
\* count exceeds the capacity of the initial chunk; it then gets the first n
\* slots of a second chunk of max(n, chunksize) slots.  A request that fits
\* (allocate(70*1024)) is served from the initial chunk, which stays alone.
C5_SingleCallGrowth ==
    SingleCall =>
        LET r == history[1] IN
        /\ r.n = CeilSlots(r.bytes)
        /\ r.n > m_chunks[1].size =>
              /\ r.grew
              /\ r.res = <<2, 0>>
              /\ Len(m_chunks) = 2
              /\ m_chunks[2].size = Max(r.n, 65536)
              /\ m_chunks[2].wmark = r.n
              /\ m_chunks[1].wmark = 0
        /\ r.n <= m_chunks[1].size =>
              /\ ~r.grew
              /\ r.res = <<1, 0>>
              /\ Len(m_chunks) = 1

C5_Witness ==
    /\ SingleCall
    /\ history[1].bytes = 3145728
    /\ Len(m_chunks) = 2

\* C6 as written: without growth, once a call has returned null every later
\* call returns null.
C6_NullForever ==
    ~m_can_expand =>
        \A i, j \in 1..Len(history) :
            (i < j /\ history[i].res = Null) => history[j].res = Null

\* C6 amended: without growth, once a call needing n slots has returned null,
\* every later call needing at least n slots returns null (a smaller request,
\* allocate(0) included, may still succeed).
C6_NullForLargerForever ==
    ~m_can_expand =>
        \A i, j \in 1..Len(history) :
            ( /\ i < j
              /\ history[i].res = Null
              /\ CeilSlots(history[j].bytes) >= CeilSlots(history[i].bytes) )
            => history[j].res = Null

C6_Witness ==
    /\ ~m_can_expand
    /\ \E i, j, k \in 1..Len(history) :
          /\ i < j /\ j < k
          /\ history[i].res = Null
          /\ history[j].res /= Null /\ history[j].n > 0
          /\ history[k].res = Null
          /\ history[k].n >= history[i].n

\* C7: chunks are only appended, never removed, reordered, resized or given
\* another buffer; a returned region stays inside its chunk and no later
\* allocate returns any slot of it.
C7_AddressStable ==
    [][ /\ Len(m_chunks') >= Len(m_chunks)
        /\ Len(m_chunks') <= Len(m_chunks) + 1
        /\ \A c \in 1..Len(m_chunks) :
              /\ m_chunks'[c].ptr = m_chunks[c].ptr
              /\ m_chunks'[c].size = m_chunks[c].size
        /\ \A k \in 1..Len(history) :
              /\ history'[k] = history[k]
              /\ history[k].res /= Null =>
                    /\ history[k].res[1] \in 1..Len(m_chunks')
                    /\ m_chunks'[history[k].res[1]].ptr = history[k].res[1]
                    /\ history[k].res[2] + history[k].n
                          <= m_chunks'[history[k].res[1]].size
              /\ \A j \in (Len(history) + 1)..Len(history') :
                    ~Overlap(history[k], history'[j])
      ]_vars

\* a region was returned from the first chunk, the arena grew, and a region
\* was returned from the second chunk
C7_Witness ==
    \E i, j \in 1..Len(history) :
        /\ i < j
        /\ history[i].res /= Null /\ history[i].res[1] = 1 /\ history[i].n > 0
        /\ history[j].res /= Null /\ history[j].res[1] = 2 /\ history[j].n > 0

C10_ChunkInvariant ==
    /\ [](\A c \in 1..Len(m_chunks) :
             0 <= m_chunks[c].wmark /\ m_chunks[c].wmark <= m_chunks[c].size)
    /\ [][\A c \in 1..Len(m_chunks) :
             /\ c <= Len(m_chunks')
             /\ m_chunks'[c].size = m_chunks[c].size
             /\ m_chunks'[c].wmark >= m_chunks[c].wmark]_vars

\* a used first chunk and a second chunk filled to its capacity
C10_Witness ==
    /\ Len(m_chunks) = 2
    /\ m_chunks[1].wmark > 0
    /\ m_chunks[2].wmark = m_chunks[2].size

----------------------------------------------------------------------------
\* the current chunk and what is left of it
Cur == m_chunks[m_index + 1]
Remaining == Cur.size - Cur.wmark

\* frame f takes the step that leaves position p
Leaves(f, p) == pc[f] = p /\ pc'[f] /= p

\* C11: when allocate, allowed to expand, finds less than n = ceil(bytes/8)
\* slots left in the current chunk, it appends exactly one chunk of
\* max(n, chunksize) slots, makes it current, returns offset 0 of it and
\* leaves its wmark at n; the chunk count grows by exactly 1.
C11_GrowthStep ==
    [][\A f \in Frames :
        /\ (Leaves(f, "core") /\ m_can_expand
                /\ Remaining < CeilSlots(bytes[f]))
           => /\ pc'[f] = "expand"
              /\ m_chunks' = m_chunks
        /\ Leaves(f, "expand")
           => /\ pc'[f] = "ptrx"
              /\ Len(m_chunks') = Len(m_chunks) + 1
              /\ SubSeq(m_chunks', 1, Len(m_chunks)) = m_chunks
              /\ m_index' = Len(m_chunks)
              /\ m_chunks'[Len(m_chunks')].size = Max(CeilSlots(bytes[f]), 65536)
              /\ m_chunks'[Len(m_chunks')].wmark = 0
        /\ Leaves(f, "ptrx")
           => /\ pc'[f] = "bumpx"
              /\ res'[f] = <<Len(m_chunks), 0>>
              /\ m_chunks' = m_chunks /\ m_index' = m_index
        /\ Leaves(f, "bumpx")
           => /\ res[f] = <<Len(m_chunks), 0>>
              /\ Len(m_chunks') = Len(m_chunks)
              /\ m_index' = Len(m_chunks) - 1
              /\ m_chunks'[Len(m_chunks)].wmark = CeilSlots(bytes[f])
              /\ history'[Len(history')].grew
      ]_vars

\* a request of fewer than chunksize slots has grown the arena and got the
\* start of a full-size chunk
C11_Witness ==
    \E i \in 1..Len(history) :
        /\ history[i].grew
        /\ history[i].n > 0 /\ history[i].n < 65536
        /\ history[i].res[1] >= 2 /\ history[i].res[2] = 0
        /\ m_chunks[history[i].res[1]].size = 65536

\* C12: allocate grows exactly when the current chunk has fewer than n slots
\* left and growth is permitted; a request that fits gets the address at
\* offset wmark of the current chunk, advances wmark by exactly n and appends
\* no chunk.
C12_FitOrGrow ==
    [][\A f \in Frames :
        /\ Leaves(f, "core")
           => /\ pc'[f] = "expand" <=> (Remaining < n'[f] /\ m_can_expand)
              /\ pc'[f] = "ptr" <=> Remaining >= n'[f]
              /\ m_chunks' = m_chunks
        /\ Leaves(f, "ptr")
           => /\ pc'[f] = "bump"
              /\ res'[f] = <<m_index + 1, Cur.wmark>>
              /\ m_chunks' = m_chunks /\ m_index' = m_index
        /\ Leaves(f, "bump")
           => /\ res[f] = <<m_index + 1, Cur.wmark>>
              /\ m_chunks' = [m_chunks EXCEPT ![m_index + 1].wmark = @ + n[f]]
              /\ m_index' = m_index
              /\ ~history'[Len(history')].grew
      ]_vars

\* a request that fits has been served behind an earlier one
C12_Witness ==
    \E i \in 1..Len(history) :
        /\ ~history[i].grew
        /\ history[i].res /= Null
        /\ history[i].n > 0
        /\ history[i].res[2] > 0
        /\ Len(m_chunks) = 1

\* C13: a call that returns null leaves the chunk count, the current-chunk
\* index and every wmark as they were, and the lock is free after it.
C13_NullLeavesArena ==
    [][\A f \in Frames :
        /\ (Leaves(f, "core") /\ ~m_can_expand /\ Remaining < n'[f])
           => /\ pc'[f] = "unlock"
              /\ res'[f] = Null
              /\ history'[Len(history')].res = Null
              /\ m_chunks' = m_chunks /\ m_index' = m_index
        /\ (pc[f] = "unlock" /\ res[f] = Null)
           => /\ lock_owner = f[1]
              /\ m_chunks' = m_chunks /\ m_index' = m_index
              /\ pc'[f] = "idle" => lock_owner' = NoThread
      ]_vars

\* a call has returned null from a partly used chunk and the lock is free
C13_Witness ==
    /\ AllIdle
    /\ lock_owner = NoThread
    /\ Len(history) >= 2
    /\ history[Len(history)].res = Null
    /\ Len(m_chunks) = 1
    /\ m_chunks[1].wmark > 0 /\ m_chunks[1].wmark < m_chunks[1].size

\* C14: the chunk sequence is never empty, m_index is the index of the chunk
\* appended last (so never the chunk count), and m_index never decreases.
C14_IndexIsLast ==
    /\ [](/\ Len(m_chunks) >= 1
          /\ m_index = Len(m_chunks) - 1
          /\ m_index /= Len(m_chunks))
    /\ [][m_index' >= m_index]_vars

C14_Witness ==
    /\ Len(m_chunks) = 3
    /\ m_index = 2

\* C15: a chunk that is no longer the current one never changes again: its
\* unused tail is not handed out, even to a request that would fit in it.
C15_TailForfeited ==
    [][ /\ \A c \in 1..Len(m_chunks) :
              c < m_index + 1 => m_chunks'[c] = m_chunks[c]
        /\ \A j \in (Len(history) + 1)..Len(history') :
              history'[j].res /= Null => history'[j].res[1] = m_index' + 1
      ]_vars

\* the first chunk was left with a free tail, and a later request that would
\* fit in that tail was served from a newer chunk
C15_Witness ==
    \E j \in 1..Len(history) :
        /\ history[j].res /= Null
        /\ history[j].res[1] > 1
        /\ history[j].n > 0
        /\ history[j].n <= m_chunks[1].size - m_chunks[1].wmark
        /\ m_chunks[1].wmark > 0

\* C16: allocate(0) always succeeds: it returns a non-null address, takes no
\* slot, never grows the arena and changes no wmark, also on a pool that may
\* not grow and whose current chunk is full.
C16_ZeroBytes ==
    /\ [](\A i \in 1..Len(history) :
             history[i].bytes = 0 =>
                 /\ history[i].res /= Null
                 /\ history[i].n = 0
                 /\ ~history[i].grew)
    /\ [][\A f \in Frames :
             (pc[f] \in Holding /\ bytes[f] = 0) =>
                 /\ m_chunks' = m_chunks /\ m_index' = m_index
                 /\ pc'[f] \notin {"expand", "ptrx", "bumpx"}
                 /\ res'[f] /= Null]_vars

\* allocate(0) has been served on a pool that may not grow and whose only
\* chunk is full
C16_Witness ==
    /\ ~m_can_expand
    /\ m_chunks[1].wmark = m_chunks[1].size
    /\ \E i \in 1..Len(history) :
          /\ history[i].bytes = 0
          /\ history[i].res = <<1, m_chunks[1].size>>
          /\ \E k \in 1..(i - 1) : history[k].n > 0 /\ history[k].res /= Null

\* C17: for every byte count of size_t the slot count that allocate computes
\* is ceil(bytes / 8), without wrap-around, so a non-null result covers at
\* least the requested bytes.
C17_SlotsCoverBytes ==
    \A i \in 1..Len(history) :
        /\ history[i].n = (history[i].bytes + 7) \div 8
        /\ history[i].res /= Null => 8 * history[i].n >= history[i].bytes

\* C18: a pool built by MemoryPool(bytes) starts with exactly two chunks, the
\* first sized from pool_size, the second from bytes, the second current; the
\* first chunk's wmark stays 0 for ever and no allocation is served from it.
C18_FirstChunkUnused ==
    /\ (Len(m_chunks) = 2 /\ m_index = 1)
    /\ [](/\ m_chunks[1].size = Max(CeilSlots(pool_size), 65536)
          /\ m_chunks[2].size = Max(CeilSlots(ctor_bytes), 65536)
          /\ m_chunks[1].wmark = 0
          /\ m_index >= 1
          /\ \A i \in 1..Len(history) :
                history[i].res /= Null => history[i].res[1] >= 2)

\* allocations have been served, the pool has grown past the two chunks of
\* the constructor, and the first chunk is still untouched
C18_Witness ==
    /\ ctor_bytes /= NoCtorBytes
    /\ AllIdle
    /\ Len(m_chunks) >= 3
    /\ \E i \in 1..Len(history) :
          history[i].res /= Null /\ history[i].n > 0 /\ history[i].res[1] = 2
    /\ m_chunks[1].wmark = 0

\* C19: pad_right writes at most min(120, width + 1) blanks and pad_left at
\* most min(120, width), for every string length and column width: a string
\* longer than its column gets no more blanks than one that fits, also in a
\* column of width 0 that flush looked up for an attribute add never saw.
C19_PadBounded ==
    \A c \in tf.out :
        /\ c.fn = "right" => c.pad <= Min(120, c.width + 1)
        /\ c.fn = "left" => c.pad <= Min(120, c.width)

\* C20: under any interleaving of get_path_keys calls every m_path_keys[i]
\* is invalid or the attribute the database resolves for path key name i; a
\* valid entry is never set back to invalid; every entry of a returned vector
\* is likewise invalid or that attribute.
C20_PathKeysCache ==
    /\ [](\A i \in Keys :
             /\ tf.m_path_keys[i] /= 0 =>
                   (i \in tf.db /\ tf.m_path_keys[i] = i)
             /\ \A t \in Threads :
                   tf.path_keys[t][i] /= 0 =>
                       (i \in tf.db /\ tf.path_keys[t][i] = i))
    /\ [][\A i \in Keys :
             tf.m_path_keys[i] /= 0 => tf'.m_path_keys[i] = tf.m_path_keys[i]]_vars

\* a call has returned a vector whose second entry is still invalid although
\* another call has cached that attribute in the meantime
C20_Witness ==
    \E t \in Threads :
        /\ tf.at[t] = "idle"
        /\ tf.path_keys[t][1] = 1
        /\ tf.path_keys[t][2] = 0
        /\ tf.m_path_keys[2] = 2

====
